---- MODULE Spec2Model ----
(***************************************************************************)
(* Rounded bar chart widget: the pointer-click listener of the chart       *)
(* component (two revisions: the ref-based one of                          *)
(* src/components/RoundedBarChart.tsx and the closure-based one whose      *)
(* effect re-registers on every dependency change), the host click         *)
(* callback of App, the grid geometry of the chart option and the row      *)
(* normalisation of App.                                                   *)
(***************************************************************************)
EXTENDS Integers, Sequences, FiniteSets, TLC

\* ------------------------------------------------------------------ bounds
\* echarts instances created over one mounted lifetime (re-initialisations + 1)
MaxSurfaces == 2
\* rows of the row lists the host passes to the chart
MaxRows == 2
\* the canvas: pixels {0, 1} x 0..CanvasH; the plot rectangle is the column x = 1,
\* inset by one pixel at the top and at the bottom
CanvasH == 4
\* category clicks the host callback receives in one run
MaxCategoryClicks == 2
\* clock ticks (of half the trigger delay each) the host clock runs for
MaxTicks == 5
\* source rows of the host columns
MaxSourceRows == 3
\* series of a chart whose series list is built
MaxSeries == 3
\* target-line heights are -50, -25, ..., in steps of 25 percent
MaxHeightSteps == 8

VARIABLES
    \* --- chart component (RoundedBarChart) ---
    variant,            \* "refs": RoundedBarChart.tsx; "closure": the closure-based revision
    phase,              \* "mounting" | "idle" | "updating" | "unmounting" | "unmounted"
    data,               \* prop: the row list of the last committed render
    onBarClick,         \* prop: the callback of the last committed render
    interactable,       \* prop: the interactivity flag of the last committed render
    dataRef,            \* useRef(data).current
    onBarClickRef,      \* useRef(onBarClick).current
    interactableRef,    \* useRef(interactable).current
    zrCleanupRef,       \* useRef(null).current: teardown of the registered handler
    effectCleanup,      \* closure revision: the destroy function the click effect returned
    chartRef,           \* chartRef.current is attached (TRUE) or null (FALSE)
    surface,            \* id of the echarts instance the ReactECharts element holds
    zrHandlers,         \* click handlers registered with zr.on and not yet removed with zr.off
    lastEvent,          \* the pointer click being dispatched (NoEvent between clicks)
    emitted,            \* the category-click events that click delivered, in order
    \* --- host callback (App.onBarClick) ---
    config,             \* App: clickVariable and onClickAction of the last render
    appMounted,         \* App is mounted
    received,           \* the category clicks onBarClick received, in order
    timers,             \* pending setTimeout callbacks, in order of expiry
    hostLog,            \* calls made to the host: setVariable and the action trigger
    now,                \* the clock, in ms
    \* --- chart option (useMemo of RoundedBarChart) ---
    chartConfig,        \* the display props the option is computed from
    option,             \* << >> before the memo has run, then << the option >>
    \* --- row normalisation (App) ---
    sigmaData,          \* the host columns: the category column and the value columns
    valueColumns,       \* config.valueColumns
    chartData           \* the normalised rows, once computed

chartVars == <<variant, phase, data, onBarClick, interactable, dataRef, onBarClickRef,
               interactableRef, zrCleanupRef, effectCleanup, chartRef, surface,
               zrHandlers, lastEvent, emitted>>

hostVars == <<config, appMounted, received, timers, hostLog, now>>

optionVars == <<chartConfig, option>>

rowVars == <<sigmaData, valueColumns, chartData>>

vars == <<chartVars, hostVars, optionVars, rowVars>>

\* the variables the chart component does not touch
NonChart == <<hostVars, optionVars, rowVars>>

\* the variables the host callback does not touch
NonHost == <<chartVars, optionVars, rowVars>>

\* the variables the option memo does not touch
NonOption == <<chartVars, hostVars, rowVars>>

\* the variables the row normalisation does not touch
NonRows == <<chartVars, hostVars, optionVars>>

\* ------------------------------------------------------------ value domains
CategoryNames == << <<"a", "b", "c", "d">>, <<"w", "x", "y", "z">> >>

Row(c) == [category |-> c, values |-> <<1>>, total |-> 1]

RowList(ver, n) == [i \in 1..n |-> Row(CategoryNames[ver][i])]

\* every length of the first naming, and the longest list under a second naming
RowLists == {RowList(1, n) : n \in 1..MaxRows} \cup {RowList(2, MaxRows)}

\* a callback is the closure App.onBarClick made over the config it was rendered with
Callbacks == [clickVariable : BOOLEAN, onClickAction : {TRUE}]

NoCleanup == [id |-> 0, zr |-> 0]

NoInstance == 0

NoEvent == [offsetX |-> -1, offsetY |-> -1]

\* ------------------------------------------------- rendering surface (echarts)
\* chartRef.current?.getEchartsInstance()
getEchartsInstance == IF chartRef THEN surface ELSE NoInstance

\* the plot rectangle of the committed option
PlotRect == [x0 |-> 1, x1 |-> 1, y0 |-> 1, y1 |-> CanvasH - 1]

\* inst.containPixel('grid', [offsetX, offsetY])
containPixel(e) ==
    /\ PlotRect.x0 <= e.offsetX /\ e.offsetX <= PlotRect.x1
    /\ PlotRect.y0 <= e.offsetY /\ e.offsetY <= PlotRect.y1

\* inst.convertFromPixel('grid', ...)[1]: the category-axis coordinate as the fraction
\* <<numerator, denominator>>; the n bands of the committed option fill the plot
\* rectangle, band i centred on coordinate i, index 0 at the bottom (inverse: false)
convertFromPixel(e, n) ==
    LET h == PlotRect.y1 - PlotRect.y0
    IN  <<2 * n * (PlotRect.y1 - e.offsetY) - h, 2 * h>>

\* Math.round of a fraction: to the nearest integer, halves towards +infinity
MathRound(q) == (2 * q[1] + q[2]) \div (2 * q[2])

\* the row index a pixel resolves to in the geometry of the committed option
yIdxOf(e, rows) == MathRound(convertFromPixel(e, Len(rows)))

\* -------------------------------------------------------------- the listener
NewId(handlers) ==
    CHOOSE i \in 1..(Cardinality(handlers) + 1) : \A h \in handlers : h.id # i

\* zr.off('click', handler) through a stored teardown closure
zrOff(cleanup, handlers) ==
    IF cleanup = NoCleanup THEN handlers
    ELSE {h \in handlers : ~(h.id = cleanup.id /\ h.zr = cleanup.zr)}

bindClickHandler_noTeardown(cleanup, handlers, instance) ==
    IF instance = NoInstance
    THEN [zrCleanupRef |-> NoCleanup, zrHandlers |-> handlers]
    ELSE LET h == [id |-> NewId(handlers), zr |-> instance, env |-> <<>>]
         IN  [zrCleanupRef |-> [id |-> h.id, zr |-> h.zr],
              zrHandlers |-> handlers \cup {h}]

\* bindClickHandler: tear the previous handler down, then register on the current instance
bindClickHandler(cleanup, handlers, instance) ==
    LET torn == zrOff(cleanup, handlers)
    IN  IF instance = NoInstance
        THEN [zrCleanupRef |-> NoCleanup, zrHandlers |-> torn]
        ELSE LET h == [id |-> NewId(torn), zr |-> instance, env |-> <<>>]
             IN  [zrCleanupRef |-> [id |-> h.id, zr |-> h.zr],
                  zrHandlers |-> torn \cup {h}]

\* closure revision: the click effect (after React ran the previous destroy function)
clickEffect(cleanup, handlers, instance) ==
    LET torn == zrOff(cleanup, handlers)
    IN  IF ~interactable \/ instance = NoInstance
        THEN [effectCleanup |-> NoCleanup, zrHandlers |-> torn]
        ELSE LET h == [id |-> NewId(torn), zr |-> instance,
                       env |-> <<data, onBarClick>>]
             IN  [effectCleanup |-> [id |-> h.id, zr |-> h.zr],
                  zrHandlers |-> torn \cup {h}]

handler_ungated(h, e) ==
    IF h.env = <<>>
    THEN LET yIdx == yIdxOf(e, data)
             d == dataRef
         IN  IF getEchartsInstance # NoInstance /\ containPixel(e)
                 /\ yIdx >= 0 /\ yIdx < Len(d)
             THEN << [category |-> d[yIdx + 1].category, cb |-> onBarClickRef] >>
             ELSE << >>
    ELSE LET yIdx == yIdxOf(e, data)
             d == h.env[1]
         IN  IF containPixel(e) /\ yIdx >= 0 /\ yIdx < Len(d)
             THEN << [category |-> d[yIdx + 1].category, cb |-> h.env[2]] >>
             ELSE << >>

\* the ZRender click handler: the events it delivers for pointer event e
handler(h, e) ==
    IF h.env = <<>>
    THEN \* ref-based: reads interactableRef, the live instance, dataRef, onBarClickRef
         LET yIdx == yIdxOf(e, data)
             d == dataRef
         IN  IF interactableRef /\ getEchartsInstance # NoInstance /\ containPixel(e)
                 /\ yIdx >= 0 /\ yIdx < Len(d)
             THEN << [category |-> d[yIdx + 1].category, cb |-> onBarClickRef] >>
             ELSE << >>
    ELSE \* closure-based: reads the data and the callback captured by the effect
         LET yIdx == yIdxOf(e, data)
             d == h.env[1]
         IN  IF containPixel(e) /\ yIdx >= 0 /\ yIdx < Len(d)
             THEN << [category |-> d[yIdx + 1].category, cb |-> h.env[2]] >>
             ELSE << >>

\* the handlers a click on the current surface reaches
ActiveListeners == {h \in zrHandlers : chartRef /\ h.zr = surface}

RECURSIVE Dispatch(_, _)
Dispatch(hs, e) ==
    IF hs = {} THEN << >>
    ELSE LET h == CHOOSE g \in hs : \A k \in hs : g.id <= k.id
         IN  handler(h, e) \o Dispatch(hs \ {h}, e)

\* ------------------------------------------------------- passive effects
unmountCleanup_missing(cleanup, handlers) == handlers

\* the destroy function of the mount effect: zrCleanupRef.current?.()
unmountCleanup(cleanup, handlers) == zrOff(cleanup, handlers)

\* the state the pending passive effects of the last commit leave
Flushed ==
    LET cur == [dataRef |-> dataRef, onBarClickRef |-> onBarClickRef,
                interactableRef |-> interactableRef, zrCleanupRef |-> zrCleanupRef,
                effectCleanup |-> effectCleanup, zrHandlers |-> zrHandlers]
        synced == [cur EXCEPT !.dataRef = data, !.onBarClickRef = onBarClick,
                              !.interactableRef = interactable]
    IN  IF variant = "refs"
        THEN CASE phase = "mounting" ->
                    LET b == bindClickHandler(zrCleanupRef, zrHandlers, getEchartsInstance)
                    IN  [synced EXCEPT !.zrCleanupRef = b.zrCleanupRef,
                                       !.zrHandlers = b.zrHandlers]
               [] phase = "updating" -> synced
               [] phase = "unmounting" ->
                    [cur EXCEPT !.zrHandlers = unmountCleanup(zrCleanupRef, zrHandlers)]
               [] OTHER -> cur
        ELSE CASE phase \in {"mounting", "updating"} ->
                    LET b == clickEffect(effectCleanup, zrHandlers, getEchartsInstance)
                    IN  [cur EXCEPT !.effectCleanup = b.effectCleanup,
                                    !.zrHandlers = b.zrHandlers]
               [] phase = "unmounting" ->
                    [cur EXCEPT !.zrHandlers = unmountCleanup(effectCleanup, zrHandlers),
                                !.effectCleanup = NoCleanup]
               [] OTHER -> cur

SetFlushed(s) ==
    /\ dataRef' = s.dataRef
    /\ onBarClickRef' = s.onBarClickRef
    /\ interactableRef' = s.interactableRef
    /\ zrCleanupRef' = s.zrCleanupRef
    /\ effectCleanup' = s.effectCleanup
    /\ zrHandlers' = s.zrHandlers

Mounted == phase \in {"mounting", "idle", "updating"}

\* the click of the previous step, if any, is over
Consumed == lastEvent' = NoEvent /\ emitted' = << >>

\* ------------------------------------------------------------------ actions
\* the host callback at rest
HostIdle ==
    /\ config = [clickVariable |-> FALSE, onClickAction |-> FALSE]
    /\ appMounted = FALSE
    /\ received = << >>
    /\ timers = << >>
    /\ hostLog = << >>
    /\ now = 0

\* no option computed
OptionIdle ==
    /\ chartConfig = [showPadding |-> TRUE]
    /\ option = << >>

\* no rows normalised
RowsIdle ==
    /\ sigmaData = [loaded |-> FALSE, cat |-> [present |-> FALSE, cells |-> << >>], v1 |-> [present |-> FALSE, cells |-> << >>], v2 |-> [present |-> FALSE, cells |-> << >>]]
    /\ valueColumns = <<"undefined">>
    /\ chartData = [done |-> FALSE, rows |-> << >>]

\* the first commit: props set, refs initialised from them, the chart element mounted
Init ==
    /\ HostIdle
    /\ OptionIdle
    /\ RowsIdle
    /\ variant \in {"refs", "closure"}
    /\ phase = "mounting"
    /\ data \in RowLists
    /\ onBarClick \in Callbacks
    /\ interactable \in BOOLEAN
    /\ dataRef = data
    /\ onBarClickRef = onBarClick
    /\ interactableRef = interactable
    /\ zrCleanupRef = NoCleanup
    /\ effectCleanup = NoCleanup
    /\ chartRef = TRUE
    /\ surface = 1
    /\ zrHandlers = {}
    /\ lastEvent = NoEvent
    /\ emitted = << >>

\* React runs the passive effects (or destroy functions) of the last commit
FlushEffects ==
    /\ phase \in {"mounting", "updating", "unmounting"}
    /\ SetFlushed(Flushed)
    /\ phase' = IF phase = "unmounting" THEN "unmounted" ELSE "idle"
    /\ Consumed
    /\ UNCHANGED NonChart
    /\ UNCHANGED <<variant, data, onBarClick, interactable, chartRef, surface>>

\* the host re-renders the chart with new props; pending effects are flushed first
Render(d, cb, i) ==
    /\ Mounted
    /\ SetFlushed(Flushed)
    /\ data' = d
    /\ onBarClick' = cb
    /\ interactable' = i
    /\ phase' = "updating"
    /\ Consumed
    /\ UNCHANGED NonChart
    /\ UNCHANGED <<variant, chartRef, surface>>

\* the library calls onChartReady on the instance it created at mount, before the
\* mount effect of the component runs
ChartReady ==
    /\ variant = "refs"
    /\ phase = "mounting"
    /\ LET b == bindClickHandler(zrCleanupRef, zrHandlers, getEchartsInstance)
       IN  /\ zrCleanupRef' = b.zrCleanupRef
           /\ zrHandlers' = b.zrHandlers
    /\ Consumed
    /\ UNCHANGED NonChart
    /\ UNCHANGED <<variant, phase, data, onBarClick, interactable, dataRef,
                   onBarClickRef, interactableRef, effectCleanup, chartRef, surface>>

\* the library disposes its echarts instance and creates a new one, then calls
\* onChartReady (the closure revision passes no onChartReady)
Reinit ==
    /\ Mounted
    /\ surface < MaxSurfaces
    /\ surface' = surface + 1
    /\ IF variant = "refs"
       THEN LET b == bindClickHandler(zrCleanupRef, zrHandlers, surface + 1)
            IN  /\ zrCleanupRef' = b.zrCleanupRef
                /\ zrHandlers' = b.zrHandlers
       ELSE UNCHANGED <<zrCleanupRef, zrHandlers>>
    /\ Consumed
    /\ UNCHANGED NonChart
    /\ UNCHANGED <<variant, phase, data, onBarClick, interactable, dataRef,
                   onBarClickRef, interactableRef, effectCleanup, chartRef>>

\* the user clicks pixel (x, y) of the canvas
Click(x, y) ==
    /\ Mounted
    /\ LET e == [offsetX |-> x, offsetY |-> y]
       IN  /\ lastEvent' = e
           /\ emitted' = Dispatch(ActiveListeners, e)
    /\ UNCHANGED NonChart
    /\ UNCHANGED <<variant, phase, data, onBarClick, interactable, dataRef,
                   onBarClickRef, interactableRef, zrCleanupRef, effectCleanup,
                   chartRef, surface, zrHandlers>>

\* the host removes the chart: pending effects are flushed, the chart element
\* unmounts (its instance is disposed), the destroy functions are left pending
Unmount ==
    /\ Mounted
    /\ SetFlushed(Flushed)
    /\ chartRef' = FALSE
    /\ phase' = "unmounting"
    /\ Consumed
    /\ UNCHANGED NonChart
    /\ UNCHANGED <<variant, data, onBarClick, interactable, surface>>

Next ==
    \/ FlushEffects
    \/ \E d \in RowLists, cb \in Callbacks, i \in BOOLEAN : Render(d, cb, i)
    \/ ChartReady
    \/ Reinit
    \/ \E x \in {0, 1}, y \in 0..CanvasH : Click(x, y)
    \/ Unmount

Spec == Init /\ [][Next]_vars

\* ------------------------------------------------------ listener properties
Clicked == lastEvent # NoEvent

\* the row index the click resolves to in the current geometry
ClickIdx == yIdxOf(lastEvent, data)

ClickOnRow == containPixel(lastEvent) /\ ClickIdx >= 0 /\ ClickIdx < Len(data)

\* C1: while a listener is bound and the chart is interactive, a click inside the plot
\* rectangle on row i emits exactly one event, carrying the category of row i of the
\* current row list, delivered to the current callback.
C1_ClickEmitsCurrentRow ==
    (Clicked /\ ActiveListeners # {} /\ interactable /\ ClickOnRow)
        => emitted = << [category |-> data[ClickIdx + 1].category, cb |-> onBarClick] >>

\* C2: a click outside the current plot rectangle, or resolving to an index outside
\* [0, rowCount), emits nothing and changes no state.
C2_IgnoredClickIsSilent ==
    [][(lastEvent' # NoEvent /\ ~ClickOnRow')
          => (emitted' = << >> /\
              UNCHANGED <<variant, phase, data, onBarClick, interactable, dataRef,
                          onBarClickRef, interactableRef, zrCleanupRef, effectCleanup,
                          chartRef, surface, zrHandlers>>)]_vars

\* C3: a click that occurs while the current interactivity flag is off emits nothing,
\* also before the effects of the render that switched it off have run.
C3_NonInteractiveIsSilent == (Clicked /\ ~interactable) => emitted = << >>

OwnedBy(h) ==
    LET ref == IF variant = "refs" THEN zrCleanupRef ELSE effectCleanup
    IN  ref = [id |-> h.id, zr |-> h.zr]

\* C4: at most one click listener of the widget is registered at any time, and it is
\* the one the stored teardown removes (so the next bind tears it down first).
C4_AtMostOneListener ==
    /\ Cardinality(zrHandlers) <= 1
    /\ \A h \in zrHandlers : OwnedBy(h)

\* C4 witness: a listener is registered on a re-initialised surface
C4_Witness ==
    /\ surface > 1 /\ phase = "idle"
    /\ \E h \in zrHandlers : h.zr = surface

Settled == phase = "idle"

\* C5 as stated: once interactivity is off and the re-render has settled, no click
\* listener of the widget is registered on the rendering surface.
C5_UnboundWhenNonInteractive == (Settled /\ ~interactable) => ActiveListeners = {}

\* C5 amended: once interactivity is off and the re-render has settled, no click emits
\* a category event; the closure-based revision has removed its listener, the
\* ref-based one keeps its listener registered.
C5_SilentWhenNonInteractive ==
    (Settled /\ ~interactable)
        => /\ Clicked => emitted = << >>
           /\ variant = "closure" => zrHandlers = {}

\* C5 witness: a click on a row reaches a registered listener of a settled,
\* non-interactive chart
C5_Witness ==
    /\ Settled /\ ~interactable /\ Clicked /\ ClickOnRow
    /\ ActiveListeners # {}

\* C6: after the widget has unmounted (its destroy functions have run), no click
\* listener registered by the widget remains.
C6_NoListenerAfterUnmount == phase = "unmounted" => zrHandlers = {}

\* C6 witness: unmounted after a bind on a re-initialised surface
C6_Witness ==
    /\ phase = "unmounted" /\ surface > 1
    /\ (IF variant = "refs" THEN zrCleanupRef ELSE effectCleanup).zr = surface

\* C15: once mount has completed, and after every re-initialisation of the surface,
\* an interactive widget has a click listener on the current surface instance, so a
\* click on a row is handled; it is never left with no listener or with a listener
\* on a discarded surface only.
C15_ListenerOnCurrentSurface ==
    (Settled /\ interactable)
        => /\ ActiveListeners # {}
           /\ (Clicked /\ ClickOnRow) => emitted # << >>

\* ======================================================= host callback (App)
\* setTimeout(() => triggerOnClick(), 100)
TriggerDelay == 100

\* the clock advances by half the trigger delay
TickMs == TriggerDelay \div 2

HostConfigs == [clickVariable : BOOLEAN, onClickAction : BOOLEAN]

HostCategories == {"a", "b"}

onBarClick_debounced(category, k) ==
    [hostLog |-> IF config.clickVariable
                 THEN Append(hostLog, [op |-> "setVariable", click |-> k,
                                       category |-> category, at |-> now,
                                       mounted |-> appMounted])
                 ELSE hostLog,
     timers |-> IF config.onClickAction
                THEN << [click |-> k, due |-> now + TriggerDelay] >>
                ELSE timers]

\* App.onBarClick(category), for the k-th click: the calls it makes and the timeout
\* it schedules
App_onBarClick(category, k) ==
    [hostLog |-> IF config.clickVariable
                 THEN Append(hostLog, [op |-> "setVariable", click |-> k,
                                       category |-> category, at |-> now,
                                       mounted |-> appMounted])
                 ELSE hostLog,
     timers |-> IF config.onClickAction
                THEN Append(timers, [click |-> k, due |-> now + TriggerDelay])
                ELSE timers]

\* the chart component at rest (the host specification does not run it)
ChartIdle ==
    /\ variant = "refs"
    /\ phase = "unmounted"
    /\ data = RowList(1, 1)
    /\ onBarClick = [clickVariable |-> FALSE, onClickAction |-> TRUE]
    /\ interactable = FALSE
    /\ dataRef = RowList(1, 1)
    /\ onBarClickRef = [clickVariable |-> FALSE, onClickAction |-> TRUE]
    /\ interactableRef = FALSE
    /\ zrCleanupRef = NoCleanup
    /\ effectCleanup = NoCleanup
    /\ chartRef = FALSE
    /\ surface = 1
    /\ zrHandlers = {}
    /\ lastEvent = NoEvent
    /\ emitted = << >>

\* App rendered for the first time with some config
HostInit ==
    /\ ChartIdle
    /\ OptionIdle
    /\ RowsIdle
    /\ config \in HostConfigs
    /\ appMounted = TRUE
    /\ received = << >>
    /\ timers = << >>
    /\ hostLog = << >>
    /\ now = 0

\* the chart delivers a category click to the current callback
CategoryClick(category) ==
    /\ appMounted
    /\ Len(received) < MaxCategoryClicks
    /\ now + TriggerDelay <= MaxTicks * TickMs
    /\ LET k == Len(received) + 1
           r == App_onBarClick(category, k)
       IN  /\ received' = Append(received, [category |-> category, at |-> now,
                                             clickVariable |-> config.clickVariable,
                                             onClickAction |-> config.onClickAction])
           /\ hostLog' = r.hostLog
           /\ timers' = r.timers
    /\ UNCHANGED <<config, appMounted, now>>
    /\ UNCHANGED NonHost

\* App re-renders with another config: useCallback makes a new onBarClick
HostRender(c) ==
    /\ appMounted
    /\ config' = c
    /\ UNCHANGED <<appMounted, received, timers, hostLog, now>>
    /\ UNCHANGED NonHost

\* App unmounts; no timeout is cleared
HostUnmount ==
    /\ appMounted
    /\ appMounted' = FALSE
    /\ UNCHANGED <<config, received, timers, hostLog, now>>
    /\ UNCHANGED NonHost

\* the earliest timeout expires: () => triggerOnClick()
TimerFire ==
    /\ timers # << >>
    /\ IF timers = << >> THEN FALSE ELSE Head(timers).due <= now
    /\ hostLog' = Append(hostLog, [op |-> "trigger", click |-> Head(timers).click,
                                   category |-> "", at |-> now,
                                   mounted |-> appMounted])
    /\ timers' = Tail(timers)
    /\ UNCHANGED <<config, appMounted, received, now>>
    /\ UNCHANGED NonHost

\* time passes, not beyond an expired timeout
Tick ==
    /\ now < MaxTicks * TickMs
    /\ IF timers = << >> THEN TRUE ELSE Head(timers).due > now
    /\ now' = now + TickMs
    /\ UNCHANGED <<config, appMounted, received, timers, hostLog>>
    /\ UNCHANGED NonHost

HostNext ==
    \/ \E category \in HostCategories : CategoryClick(category)
    \/ \E c \in HostConfigs : HostRender(c)
    \/ HostUnmount
    \/ TimerFire
    \/ Tick

\* timeouts expire and the clock runs
HostSpec == HostInit /\ [][HostNext]_vars /\ WF_vars(TimerFire) /\ WF_vars(Tick)

\* ---------------------------------------------------- host callback properties
Triggers(k) == {i \in DOMAIN hostLog : hostLog[i].op = "trigger" /\ hostLog[i].click = k}

SetVariables(k) ==
    {i \in DOMAIN hostLog : hostLog[i].op = "setVariable" /\ hostLog[i].click = k}

Pending(k) == {i \in DOMAIN timers : timers[i].click = k}

TriggerOnceSoFar ==
    \A k \in DOMAIN received :
        /\ Cardinality(Triggers(k)) + Cardinality(Pending(k))
              = (IF received[k].onClickAction THEN 1 ELSE 0)
        /\ Cardinality(SetVariables(k)) = (IF received[k].clickVariable THEN 1 ELSE 0)
        /\ \A i \in Triggers(k) :
              /\ hostLog[i].at >= received[k].at + TriggerDelay
              /\ received[k].clickVariable => \E j \in SetVariables(k) : j < i
        /\ \A j \in SetVariables(k) : hostLog[j].category = received[k].category

\* C7: for every category click received while a click action is configured the
\* action trigger fires exactly once, no sooner than the fixed delay after the click
\* and after the variable-set of that click; a later click, a re-render or an unmount
\* does not cancel it, and it is never repeated.
C7_TriggerFiresOnce ==
    /\ []TriggerOnceSoFar
    /\ \A k \in 1..MaxCategoryClicks :
          [](k \in DOMAIN received /\ received[k].onClickAction => <>(Triggers(k) # {}))

\* C7 witness: two clicks with an action configured, the second received before the
\* trigger of the first fired, both triggers fired, the last after App unmounted
C7_Witness ==
    /\ Len(received) = 2
    /\ received[1].clickVariable /\ received[1].onClickAction /\ received[2].onClickAction
    /\ \E i \in Triggers(1) : hostLog[i].at > received[2].at
    /\ \E i \in Triggers(2) : ~hostLog[i].mounted

\* ==================================================== chart option: the grid
PaddingValues == {0, 8, 16, 24}

Titles == {"", "Sales"}

LabelStyles == {"None", "First Value / Total", "First Value Only"}

LegendPositions == {"Bottom", "Top", "Left", "Right", "Top Right", "Bottom Right"}

SeriesNameLists == {<<"Revenue", "Cost">>, <<"Q1">>}

ChartConfigs ==
    [showPadding : BOOLEAN, chartPadding : PaddingValues, title : Titles,
     showLegend : BOOLEAN, legendPosition : LegendPositions,
     showXAxis : BOOLEAN, showYAxis : BOOLEAN, labelStyle : LabelStyles,
     seriesNames : SeriesNameLists]

MaxOf(S) == CHOOSE m \in S : \A k \in S : k <= m

effectivePadding_ignoresToggle(c) == c.chartPadding

effectivePadding(c) == IF c.showPadding THEN c.chartPadding ELSE 0

showLabel(c) == c.labelStyle # "None"

legendOffset(c) == IF c.showLegend THEN 32 ELSE 0

legendOnRight(c) == c.legendPosition \in {"Right", "Top Right", "Bottom Right"}

\* 28 + Math.max(...seriesNames.map((sn) => sn.length), 0) * 7
legendRightWidth(c) ==
    IF c.showLegend /\ legendOnRight(c)
    THEN 28 + MaxOf({Len(c.seriesNames[i]) : i \in DOMAIN c.seriesNames} \cup {0}) * 7
    ELSE 0

legendAtBottom(c) == c.showLegend /\ c.legendPosition = "Bottom"

legendAtTop_topEdge(c) == c.showLegend /\ c.legendPosition \in {"Top", "Top Right"}

legendAtTop(c) == c.showLegend /\ c.legendPosition = "Top"

legendAtLeft(c) == c.showLegend /\ c.legendPosition = "Left"

gridTop(c) ==
    IF ~c.showPadding /\ c.title = "" /\ ~legendAtTop(c)
    THEN 0
    ELSE (IF c.title # "" THEN effectivePadding(c) + 32 ELSE effectivePadding(c))
         + (IF legendAtTop(c) THEN legendOffset(c) ELSE 0)

gridBottom(c) ==
    IF ~c.showPadding /\ ~c.showXAxis /\ ~legendAtBottom(c)
    THEN 0
    ELSE effectivePadding(c) + (IF legendAtBottom(c) THEN legendOffset(c) ELSE 0)

gridLeft(c) ==
    IF ~c.showPadding /\ ~c.showYAxis /\ ~legendAtLeft(c)
    THEN 0
    ELSE effectivePadding(c) + (IF legendAtLeft(c) THEN 80 ELSE 0)

gridRight_sum(c) ==
    IF legendOnRight(c) /\ c.showLegend
    THEN legendRightWidth(c) + (IF showLabel(c) THEN 80 ELSE 0) + effectivePadding(c)
    ELSE (IF showLabel(c) THEN effectivePadding(c) + 80 ELSE effectivePadding(c))

gridRight(c) ==
    IF legendOnRight(c) /\ c.showLegend
    THEN MaxOf({legendRightWidth(c), IF showLabel(c) THEN 80 ELSE 0}) + effectivePadding(c)
    ELSE (IF showLabel(c) THEN effectivePadding(c) + 80 ELSE effectivePadding(c))

containLabel(c) == c.showYAxis \/ c.showXAxis

\* the option the memo returns (the parts modelled)
Option(c) ==
    [grid |-> [top |-> gridTop(c), bottom |-> gridBottom(c), left |-> gridLeft(c),
               right |-> gridRight(c), containLabel |-> containLabel(c)]]

\* the chart is rendered with some display props; the memo has not run yet
OptionInit ==
    /\ ChartIdle
    /\ HostIdle
    /\ RowsIdle
    /\ chartConfig \in ChartConfigs
    /\ option = << >>

\* useMemo computes the option from the props
BuildOption ==
    /\ option = << >>
    /\ option' = << Option(chartConfig) >>
    /\ UNCHANGED chartConfig
    /\ UNCHANGED NonOption

OptionNext == BuildOption

OptionSpec == OptionInit /\ [][OptionNext]_vars

\* ------------------------------------------------------------ grid properties
OptionBuilt == option # << >>

Chromeless(c) ==
    ~c.showPadding /\ c.title = "" /\ ~c.showLegend /\ ~c.showXAxis /\ ~c.showYAxis

\* C8 as stated: with padding disabled, no title, no legend and both axes hidden all
\* four insets are 0, whatever the label style, legend position and padding amount.
C8_ChromelessAllZero ==
    (OptionBuilt /\ Chromeless(chartConfig))
        => LET g == option[1].grid
           IN  g.top = 0 /\ g.bottom = 0 /\ g.left = 0 /\ g.right = 0

\* C8 amended: with padding disabled, no title, no legend and both axes hidden the
\* top, bottom and left insets are 0, and the right inset is 0 when the label style
\* is None and 80 when value labels are shown.
C8_ChromelessInsets ==
    (OptionBuilt /\ Chromeless(chartConfig))
        => LET g == option[1].grid
           IN  /\ g.top = 0 /\ g.bottom = 0 /\ g.left = 0
               /\ g.right = (IF chartConfig.labelStyle = "None" THEN 0 ELSE 80)

\* C8 witness: a chromeless option with value labels, a padding amount and a
\* right-anchored legend position configured
C8_Witness ==
    /\ OptionBuilt /\ Chromeless(chartConfig)
    /\ chartConfig.labelStyle = "First Value Only"
    /\ chartConfig.chartPadding = 24
    /\ chartConfig.legendPosition = "Top Right"

\* the character length of the longest series name
LongestName(c) ==
    CHOOSE m \in {Len(c.seriesNames[i]) : i \in DOMAIN c.seriesNames} :
        \A i \in DOMAIN c.seriesNames : Len(c.seriesNames[i]) <= m

PaddingOf(c) == IF c.showPadding THEN c.chartPadding ELSE 0

LabelRoom(c) == IF c.labelStyle = "None" THEN 0 ELSE 80

RightAnchored(c) == c.showLegend /\ c.legendPosition \in {"Right", "Top Right", "Bottom Right"}

\* C16: the right inset is max(legend reserved width, 80 if labels are shown else 0)
\* + effective padding when the legend is shown and right-anchored, the reserved width
\* being 28 + 7 x the length of the longest series name (77 for "Revenue", "Cost");
\* otherwise it is effective padding + (80 if labels are shown else 0).
C16_RightInset ==
    OptionBuilt
        => LET c == chartConfig
               reserved == 28 + 7 * LongestName(c)
               right == option[1].grid.right
           IN  /\ RightAnchored(c) /\ reserved >= LabelRoom(c) => right = reserved + PaddingOf(c)
               /\ RightAnchored(c) /\ reserved < LabelRoom(c) => right = LabelRoom(c) + PaddingOf(c)
               /\ ~RightAnchored(c) => right = PaddingOf(c) + LabelRoom(c)
               /\ (RightAnchored(c) /\ c.seriesNames = <<"Revenue", "Cost">>
                      /\ c.labelStyle = "None")
                     => right = 77 + PaddingOf(c)

\* C16 witness: a right-anchored legend of "Revenue", "Cost" next to value labels,
\* with padding
C16_Witness ==
    /\ OptionBuilt /\ RightAnchored(chartConfig)
    /\ chartConfig.seriesNames = <<"Revenue", "Cost">>
    /\ chartConfig.labelStyle # "None"
    /\ PaddingOf(chartConfig) = 16
    /\ option[1].grid.right = 96

TitleRoom(c) == IF c.title # "" THEN 32 ELSE 0

\* C17 as stated: whenever the shown legend is on the top edge (Top, Top Right) the
\* top inset includes +32, and whenever it is on the bottom edge (Bottom, Bottom
\* Right) the bottom inset includes +32.
C17_OffsetOnSharedEdge ==
    (OptionBuilt /\ chartConfig.showLegend)
        => LET c == chartConfig
               g == option[1].grid
           IN  /\ c.legendPosition \in {"Top", "Top Right"}
                     => g.top = PaddingOf(c) + TitleRoom(c) + 32
               /\ c.legendPosition \in {"Bottom", "Bottom Right"}
                     => g.bottom = PaddingOf(c) + 32

\* C17 amended: the legend offset 32 is added to the top inset when the shown legend
\* is at position Top and to the bottom inset when it is at position Bottom; at the
\* four other positions, Top Right and Bottom Right included, neither inset gets it.
C17_OffsetAtTopAndBottom ==
    (OptionBuilt /\ chartConfig.showLegend)
        => LET c == chartConfig
               g == option[1].grid
           IN  /\ g.top = PaddingOf(c) + TitleRoom(c)
                            + (IF c.legendPosition = "Top" THEN 32 ELSE 0)
               /\ g.bottom = PaddingOf(c)
                            + (IF c.legendPosition = "Bottom" THEN 32 ELSE 0)

\* C17 witness: a shown legend at Top Right under a title, with padding: the top
\* inset has no legend offset
C17_Witness ==
    /\ OptionBuilt /\ chartConfig.showLegend
    /\ chartConfig.legendPosition = "Top Right"
    /\ chartConfig.title # "" /\ PaddingOf(chartConfig) = 8
    /\ option[1].grid.top = 40

\* ================================================ chart option: the series
\* the values a series holds in a row
SeriesValues == {-1, 0, 1, 2}

SeriesNamesOf(n) == [i \in 1..n |-> <<"Revenue", "Cost", "Tax", "Fee">>[i]]

RECURSIVE SumTo(_, _)
\* row.values.slice(0, k).reduce((s, v) => s + v, 0)
SumTo(values, k) == IF k = 0 THEN 0 ELSE SumTo(values, k - 1) + values[k]

\* a normalised row: total is the sum of the values
BarRow(category, values) ==
    [category |-> category, values |-> values, total |-> SumTo(values, Len(values))]

Reversed(values) == [i \in DOMAIN values |-> values[Len(values) + 1 - i]]

\* the row lists of n series: one row, or that row followed by its mirror image
SeriesData(n) ==
    {<< BarRow("a", v) >> : v \in [1..n -> SeriesValues]}
    \cup {<< BarRow("a", v), BarRow("b", Reversed(v)) >> : v \in [1..n -> SeriesValues]}

\* the palette prop
Colors == <<"#2563EB", "#93C5FD">>

CornerRadii == {0, 8}

\* the props the series are built from: the ref-based revision stacks segments or
\* overlays cumulative bars (midBarCurves), the closure-based one draws gradient pills
SeriesConfigsOf(n) ==
    [variant : {"refs"}, midBarCurves : BOOLEAN, seriesNames : {SeriesNamesOf(n)},
     data : SeriesData(n), cornerRadius : CornerRadii, colors : {Colors}]
    \cup
    [variant : {"closure"}, midBarCurves : {FALSE}, seriesNames : {SeriesNamesOf(n)},
     data : SeriesData(n), cornerRadius : CornerRadii, colors : {Colors}]

SeriesConfigs == UNION {SeriesConfigsOf(n) : n \in 1..MaxSeries}

\* colors[i] ?? colors[colors.length - 1], i counted from 0
colorOf(c, i) == IF i + 1 <= Len(c.colors) THEN c.colors[i + 1] ELSE c.colors[Len(c.colors)]

\* itemStyle.borderRadius as the renderer reads it: a number rounds all four
\* corners, an array is <<top-left, top-right, bottom-right, bottom-left>>
Corners(borderRadius) ==
    IF borderRadius[1] = "number"
    THEN <<borderRadius[2], borderRadius[2], borderRadius[2], borderRadius[2]>>
    ELSE borderRadius[2]

radiusFor_allRounded(idx, n, r) == <<"number", r>>

\* radiusFor of the segmented branch, idx counted from 0
radiusFor(idx, n, r) ==
    IF n = 1 THEN <<"number", r>>
    ELSE IF idx = 0 THEN <<"array", <<r, 0, 0, r>>>>
    ELSE IF idx = n - 1 THEN <<"array", <<0, r, r, 0>>>>
    ELSE <<"number", 0>>

\* midBarCurves = false: seriesNames.map((name, idx) => ...)
segmentedSeries(c) ==
    LET n == Len(c.seriesNames)
    IN  [k \in 1..n |->
            [name |-> c.seriesNames[k], stack |-> "total",
             data |-> [i \in DOMAIN c.data |-> c.data[i].values[k]],
             color |-> colorOf(c, k - 1),
             borderRadius |-> radiusFor(k - 1, n, c.cornerRadius)]]

\* seriesData of the midBarCurves branch
cumulativeSeriesData(c) ==
    [k \in DOMAIN c.seriesNames |->
        [name |-> c.seriesNames[k], originalIdx |-> k - 1,
         cumData |-> [i \in DOMAIN c.data |-> SumTo(c.data[i].values, k)]]]

\* [...seriesData].reverse()
cumulativeOrder(seriesData) == Reversed(seriesData)

\* midBarCurves = true: the reversed seriesData mapped to overlapping bars
cumulativeSeries(c) ==
    LET ordered == cumulativeOrder(cumulativeSeriesData(c))
    IN  [k \in DOMAIN ordered |->
            [name |-> ordered[k].name, barGap |-> "-100%",
             data |-> ordered[k].cumData,
             color |-> colorOf(c, ordered[k].originalIdx),
             borderRadius |-> <<"number", c.cornerRadius>>]]

\* Math.max(0, Math.min(1, cum / row.total)) as the fraction <<numerator, total>>,
\* for a positive total
gradientOffset(cum, total) ==
    <<(IF cum > total THEN total ELSE IF cum < 0 THEN 0 ELSE cum), total>>

\* buildGradientStops(row)
buildGradientStops(c, row) ==
    IF row.total <= 0 THEN << [offset |-> <<0, 1>>, color |-> c.colors[1]] >>
    ELSE [j \in 1..(2 * Len(row.values)) |->
            LET i == (j + 1) \div 2
            IN  [offset |-> gradientOffset(SumTo(row.values, IF j % 2 = 1 THEN i - 1 ELSE i),
                                           row.total),
                 color |-> colorOf(c, i - 1)]]

\* itemStyle.color of a pill: a linear gradient or the first colour
pillColor(c, row) ==
    IF Len(c.seriesNames) > 1 /\ row.total > 0
    THEN <<"linear", buildGradientStops(c, row)>>
    ELSE <<"flat", c.colors[1]>>

\* mainSeries of the gradient revision
mainSeries(c) ==
    [name |-> "__gradient__",
     data |-> [i \in DOMAIN c.data |->
                  [value |-> c.data[i].total,
                   borderRadius |-> <<"number", c.cornerRadius>>,
                   color |-> pillColor(c, c.data[i])]]]

\* legendStubs of the gradient revision
legendStubs(c) ==
    [k \in DOMAIN c.seriesNames |->
        [name |-> c.seriesNames[k], stack |-> "__legendstub__", barWidth |-> 0,
         data |-> [i \in DOMAIN c.data |-> 0], color |-> colorOf(c, k - 1)]]

\* the series list of the option
seriesOf(c) ==
    IF c.variant = "closure" THEN << mainSeries(c) >> \o legendStubs(c)
    ELSE IF c.midBarCurves THEN cumulativeSeries(c)
    ELSE segmentedSeries(c)

\* the chart is rendered with some rows and series props; the memo has not run yet
SeriesInit ==
    /\ ChartIdle
    /\ HostIdle
    /\ RowsIdle
    /\ chartConfig \in SeriesConfigs
    /\ option = << >>

\* useMemo computes the option from the props
BuildSeries ==
    /\ option = << >>
    /\ option' = << [series |-> seriesOf(chartConfig)] >>
    /\ UNCHANGED chartConfig
    /\ UNCHANGED NonOption

SeriesNext == BuildSeries

SeriesSpec == SeriesInit /\ [][SeriesNext]_vars

\* ---------------------------------------------------------- series properties
Segmented == chartConfig.variant = "refs" /\ ~chartConfig.midBarCurves

CumulativeOverlay == chartConfig.variant = "refs" /\ chartConfig.midBarCurves

GradientPill == chartConfig.variant = "closure"

\* C11: in segmented mode with n >= 2 series, series 0 is rounded on the left corner
\* pair only, series n-1 on the right pair only, interior series not at all; a single
\* series has all four corners rounded with the configured radius.
C11_OuterRounding ==
    (OptionBuilt /\ Segmented)
        => LET series == option[1].series
               n == Len(chartConfig.seriesNames)
               r == chartConfig.cornerRadius
           IN  /\ Len(series) = n
               /\ n = 1 => Corners(series[1].borderRadius) = <<r, r, r, r>>
               /\ n >= 2 =>
                     /\ Corners(series[1].borderRadius) = <<r, 0, 0, r>>
                     /\ Corners(series[n].borderRadius) = <<0, r, r, 0>>
                     /\ \A k \in 2..(n - 1) :
                           Corners(series[k].borderRadius) = <<0, 0, 0, 0>>

\* C11 witness: three segmented series with a positive radius
C11_Witness ==
    /\ OptionBuilt /\ Segmented
    /\ Len(option[1].series) = 3
    /\ chartConfig.cornerRadius > 0

\* C12: in cumulative-overlay mode, for every row the drawn extent of series i is
\* sum(values[0..i]), every series is fully rounded, and the series are emitted in
\* descending order of cumulative extent for every row.
C12_CumulativeDescending ==
    (OptionBuilt /\ CumulativeOverlay)
        => LET series == option[1].series
               n == Len(chartConfig.seriesNames)
               r == chartConfig.cornerRadius
           IN  /\ Len(series) = n
               /\ \A i0 \in 0..(n - 1) :
                     \E k \in DOMAIN series :
                        /\ series[k].name = chartConfig.seriesNames[i0 + 1]
                        /\ \A row \in DOMAIN chartConfig.data :
                              series[k].data[row]
                                  = SumTo(chartConfig.data[row].values, i0 + 1)
               /\ \A k \in DOMAIN series :
                     Corners(series[k].borderRadius) = <<r, r, r, r>>
               /\ \A k \in 1..(n - 1) :
                     \A row \in DOMAIN chartConfig.data :
                        series[k].data[row] >= series[k + 1].data[row]

\* C13: in gradient-pill mode a row with total <= 0 is filled flat with the first
\* colour, and a row with total > 0 with a gradient of 2 x seriesCount stops whose
\* offsets are non-decreasing and lie in [0, 1].
C13_GradientStops ==
    (OptionBuilt /\ GradientPill)
        => LET pills == option[1].series[1].data
               n == Len(chartConfig.seriesNames)
           IN  \A i \in DOMAIN pills :
                  LET fill == pills[i].color
                  IN  IF chartConfig.data[i].total <= 0
                      THEN fill = <<"flat", chartConfig.colors[1]>>
                      ELSE /\ fill[1] = "linear"
                           /\ Len(fill[2]) = 2 * n
                           /\ \A j \in DOMAIN fill[2] :
                                 /\ 0 <= fill[2][j].offset[1]
                                 /\ fill[2][j].offset[1] <= fill[2][j].offset[2]
                           /\ \A j \in 1..(Len(fill[2]) - 1) :
                                 fill[2][j].offset[1] <= fill[2][j + 1].offset[1]

\* ================================================= row normalisation (App)
\* raw cells of the category column: a string, the empty string, null
CategoryCells == {<<"str", "a">>, <<"str", "">>, <<"null", "">>}

\* raw cells of a value column: a number, a numeric string, a text that is no
\* number, null
ValueCells == {<<"num", 1>>, <<"str", "2">>, <<"str", "x">>, <<"null", "">>}

\* a JavaScript number is <<"num", n>> or NaN
NaN == <<"nan">>

Zero == <<"num", 0>>

\* s + v
Plus(s, v) == IF s = NaN \/ v = NaN THEN NaN ELSE <<"num", s[2] + v[2]>>

MissingColumn == [present |-> FALSE, cells |-> << >>]

\* the host columns for a source of n rows: the first value column may be one cell
\* short, the second is missing or holds 10, 20, ...
SigmaDataOf(n) ==
    [loaded : {TRUE},
     cat : [present : {TRUE}, cells : [1..n -> CategoryCells]],
     v1 : [present : {TRUE},
           cells : [1..n -> ValueCells] \cup
                   (IF n > 0 THEN [1..(n - 1) -> ValueCells] ELSE {})],
     v2 : {MissingColumn,
           [present |-> TRUE, cells |-> [i \in 1..n |-> <<"num", 10 * i>>]]}]

SigmaDatas ==
    UNION {SigmaDataOf(n) : n \in 0..MaxSourceRows}
    \cup {[loaded |-> FALSE, cat |-> MissingColumn, v1 |-> MissingColumn,
           v2 |-> MissingColumn],
          [loaded |-> TRUE, cat |-> MissingColumn,
           v1 |-> [present |-> TRUE, cells |-> << <<"num", 1>> >>],
           v2 |-> MissingColumn]}

\* config.valueColumns: undefined, one id, or an array of ids
ValueColumnConfigs ==
    {<<"undefined">>, <<"string", "v1">>, <<"array", <<"v1", "v2">>>>,
     <<"array", <<"v2", "v1">>>>}

valueIdArray ==
    CASE valueColumns[1] = "array" -> valueColumns[2]
      [] valueColumns[1] = "string" -> << valueColumns[2] >>
      [] OTHER -> << >>

\* columnInfo?.[id]?.name ?? id
ColumnName(id) == IF id = "v1" THEN "Revenue" ELSE id

seriesNames == [j \in DOMAIN valueIdArray |-> ColumnName(valueIdArray[j])]

\* String(cat ?? '')
StringOf(cell) == IF cell[1] = "null" THEN "" ELSE cell[2]

\* Number(v) of a cell that is not null
NumberOf(cell) ==
    CASE cell[1] = "num" -> cell
      [] cell[1] = "str" /\ cell[2] = "2" -> <<"num", 2>>
      [] cell[1] = "str" /\ cell[2] = "" -> Zero
      [] OTHER -> NaN

\* sigmaData[id]?.[i] is undefined or null
Absent(id, i) ==
    LET col == sigmaData[id]
    IN  IF ~col.present \/ i > Len(col.cells) THEN TRUE
        ELSE col.cells[i][1] = "null"

\* Number(sigmaData[id]?.[i] ?? 0)
cellNumber(id, i) == IF Absent(id, i) THEN Zero ELSE NumberOf(sigmaData[id].cells[i])

rowValues_presentOnly(i) ==
    LET ids == SelectSeq(valueIdArray, LAMBDA id : ~Absent(id, i))
    IN  [j \in DOMAIN ids |-> cellNumber(ids[j], i)]

\* valueIdArray.map((id) => Number(sigmaData[id]?.[i] ?? 0))
rowValues(i) == [j \in DOMAIN valueIdArray |-> cellNumber(valueIdArray[j], i)]

\* values.reduce((s, v) => s + v, 0)
RECURSIVE reduceSum(_)
reduceSum(values) ==
    IF values = << >> THEN Zero
    ELSE Plus(reduceSum(SubSeq(values, 1, Len(values) - 1)), values[Len(values)])

mapSet_overwrite(aggregated, row) ==
    IF \E k \in DOMAIN aggregated : aggregated[k].category = row.category
    THEN [k \in DOMAIN aggregated |->
            IF aggregated[k].category = row.category THEN row ELSE aggregated[k]]
    ELSE Append(aggregated, row)

\* if (aggregated.has(category)) return; ... aggregated.set(category, row)
mapSet(aggregated, row) ==
    IF \E k \in DOMAIN aggregated : aggregated[k].category = row.category
    THEN aggregated
    ELSE Append(aggregated, row)

\* categories.forEach((cat, i) => ...), from source row i on
RECURSIVE forEachCategory(_, _)
forEachCategory(i, aggregated) ==
    IF i > Len(sigmaData.cat.cells) THEN aggregated
    ELSE LET values == rowValues(i)
             row == [category |-> StringOf(sigmaData.cat.cells[i]),
                     values |-> values, total |-> reduceSum(values)]
         IN  forEachCategory(i + 1, mapSet(aggregated, row))

Normalizable ==
    IF ~sigmaData.loaded THEN FALSE
    ELSE sigmaData.cat.present /\ valueIdArray # << >>

\* chartData of App
normalize == IF ~Normalizable THEN << >> ELSE forEachCategory(1, << >>)

\* App is rendered with some host columns and some value-column config
RowsInit ==
    /\ ChartIdle
    /\ HostIdle
    /\ OptionIdle
    /\ sigmaData \in SigmaDatas
    /\ valueColumns \in ValueColumnConfigs
    /\ chartData = [done |-> FALSE, rows |-> << >>]

\* App computes chartData
Normalize ==
    /\ ~chartData.done
    /\ chartData' = [done |-> TRUE, rows |-> normalize]
    /\ UNCHANGED <<sigmaData, valueColumns>>
    /\ UNCHANGED NonRows

RowsNext == Normalize

RowsSpec == RowsInit /\ [][RowsNext]_vars

\* ------------------------------------------------------------- row properties
RECURSIVE SumFrom(_, _)
SumFrom(values, j) ==
    IF j > Len(values) THEN Zero ELSE Plus(values[j], SumFrom(values, j + 1))

SourceCategory(i) == StringOf(sigmaData.cat.cells[i])

\* the first source row with category c
FirstIndex(c) ==
    CHOOSE i \in DOMAIN sigmaData.cat.cells :
        /\ SourceCategory(i) = c
        /\ \A m \in 1..(i - 1) : SourceCategory(m) # c

\* C9: every normalised row has total = sum(values) (both NaN when a value is NaN)
\* and one value per series name, a value absent at a series position being 0.
C9_RowTotals ==
    (chartData.done /\ Normalizable)
        => \A k \in DOMAIN chartData.rows :
              LET r == chartData.rows[k]
              IN  /\ r.total = SumFrom(r.values, 1)
                  /\ Len(r.values) = Len(seriesNames)
                  /\ \A j \in DOMAIN valueIdArray :
                        Absent(valueIdArray[j], FirstIndex(r.category))
                            => r.values[j] = Zero

\* C9 witness: rows of two series, one with an absent value, one with a positive total
C9_Witness ==
    /\ chartData.done /\ Normalizable
    /\ Len(valueIdArray) = 2
    /\ \E k \in DOMAIN chartData.rows :
          \E j \in DOMAIN valueIdArray :
              Absent(valueIdArray[j], FirstIndex(chartData.rows[k].category))
    /\ \E k \in DOMAIN chartData.rows :
          /\ chartData.rows[k].total # NaN
          /\ chartData.rows[k].total[2] > 0

\* C10: the rows hold each distinct category exactly once, in order of first
\* appearance in the category column, with the values of the first source row of
\* that category.
C10_FirstOccurrenceWins ==
    (chartData.done /\ Normalizable)
        => LET rows == chartData.rows
           IN  /\ {rows[k].category : k \in DOMAIN rows}
                     = {SourceCategory(i) : i \in DOMAIN sigmaData.cat.cells}
               /\ \A k, l \in DOMAIN rows :
                     k < l => /\ rows[k].category # rows[l].category
                              /\ FirstIndex(rows[k].category) < FirstIndex(rows[l].category)
               /\ \A k \in DOMAIN rows :
                     rows[k].values = rowValues(FirstIndex(rows[k].category))

\* C10 witness: two categories from three source rows, a later source row repeating
\* a category with other values
C10_Witness ==
    /\ chartData.done /\ Normalizable
    /\ Len(chartData.rows) = 2
    /\ \E i \in DOMAIN sigmaData.cat.cells :
          /\ FirstIndex(SourceCategory(i)) < i
          /\ rowValues(i) # rowValues(FirstIndex(SourceCategory(i)))

\* ========================================================== the target line
\* the first cell of the target-line column
TargetCells == {<<"num", 5>>, <<"str", "2">>, <<"str", "x">>, <<"str", "">>, <<"null", "">>}

\* sigmaData[targetLineColId]: undefined, an empty array, or cells
TargetColumns ==
    {MissingColumn, [present |-> TRUE, cells |-> << >>]}
    \cup {[present |-> TRUE, cells |-> << cell >>] : cell \in TargetCells}
    \cup {[present |-> TRUE, cells |-> << cell, <<"num", 9>> >>] : cell \in TargetCells}

\* targetLineHeight, in percent
Heights == {25 * k - 50 : k \in 0..MaxHeightSteps}

TargetConfigs ==
    [variant : {"refs", "closure"}, showTargetLine : BOOLEAN,
     targetLineColId : {"undefined", "t"}, loaded : BOOLEAN,
     column : TargetColumns, targetLineHeight : Heights, rowCount : 1..MaxRows]

\* Number(col[0]): Number(null) is 0
NumberOfCell(cell) == IF cell[1] = "null" THEN Zero ELSE NumberOf(cell)

\* targetLineValue of App
targetLineValue(c) ==
    IF c.targetLineColId = "undefined" \/ ~c.loaded THEN NaN
    ELSE IF ~c.column.present THEN NaN
    ELSE IF Len(c.column.cells) = 0 THEN NaN
    ELSE NumberOfCell(c.column.cells[1])

\* showTargetLine && !isNaN(targetLineValue)
hasTargetLine(c) == c.showTargetLine /\ targetLineValue(c) # NaN

clampedFraction_unclamped(height) == <<height, 100>>

\* Math.min(1, Math.max(0, targetLineHeight / 100)) as the fraction <<numerator, 100>>
clampedFraction(height) ==
    <<(IF height < 0 THEN 0 ELSE IF height > 100 THEN 100 ELSE height), 100>>

\* markLineConfig.data: the closure-based revision gives the axis shorthand
\* {xAxis: v}, the ref-based one two endpoints on the hidden axis, yAxis = 0.5 -+ f / 2
\* as fractions <<numerator, denominator>>
markLineData(c) ==
    IF c.variant = "closure" THEN <<"line", targetLineValue(c)>>
    ELSE LET f == clampedFraction(c.targetLineHeight)
         IN  <<"segment",
               [xAxis |-> targetLineValue(c), yAxis |-> <<f[2] - f[1], 2 * f[2]>>],
               [xAxis |-> targetLineValue(c), yAxis |-> <<f[2] + f[1], 2 * f[2]>>]>>

\* markLineConfig: << >> for undefined
markLineConfig(c) == IF hasTargetLine(c) THEN << markLineData(c) >> ELSE << >>

\* yAxis of the option: the category axis and, in the ref-based revision, the hidden
\* axis from 0 to 1
yAxisOf(c) ==
    IF c.variant = "closure" THEN << [type |-> "category", count |-> c.rowCount] >>
    ELSE << [type |-> "category", count |-> c.rowCount], [type |-> "value", min |-> 0, max |-> 1] >>

\* the chart is rendered with some target-line props; the memo has not run yet
TargetInit ==
    /\ ChartIdle
    /\ HostIdle
    /\ RowsIdle
    /\ chartConfig \in TargetConfigs
    /\ option = << >>

\* useMemo computes the option from the props
BuildTargetLine ==
    /\ option = << >>
    /\ option' = << [yAxis |-> yAxisOf(chartConfig), markLine |-> markLineConfig(chartConfig)] >>
    /\ UNCHANGED chartConfig
    /\ UNCHANGED NonOption

TargetNext == BuildTargetLine

TargetSpec == TargetInit /\ [][TargetNext]_vars

\* ----------------------------------------------------- target-line properties
\* the configured column has a first cell and it holds a number (numeric text counted)
FirstCellNumeric(c) ==
    /\ c.targetLineColId # "undefined" /\ c.loaded /\ c.column.present
    /\ Len(c.column.cells) > 0
    /\ \/ c.column.cells[1][1] = "num"
       \/ c.column.cells[1] = <<"str", "2">>

\* C14: with a non-numeric or missing target-line value (no column configured, empty
\* column, first cell not a number) the option has no target line; a target line
\* appears only when target-line visibility is on and the value is a number.
C14_TargetLineOnlyForNumbers ==
    OptionBuilt
        => /\ ~FirstCellNumeric(chartConfig) => option[1].markLine = << >>
           /\ option[1].markLine # << >>
                 => chartConfig.showTargetLine /\ FirstCellNumeric(chartConfig)

\* the fraction of the plot height at which the hidden axis draws value y
PlotFraction(y, axis) == <<y[1] - axis.min * y[2], (axis.max - axis.min) * y[2]>>

\* C18: for every target-line height (below 0 and above 100 included) and every row
\* count the two endpoints share the target value and lie symmetrically about the
\* vertical centre of the plot, spanning the fraction height/100 clamped to [0, 1] of
\* it; at height >= 100 the line spans the whole plot height, as the full-height
\* shorthand does.
C18_TargetLineCentred ==
    (OptionBuilt /\ option[1].markLine # << >>)
        => LET line == option[1].markLine[1]
               h == chartConfig.targetLineHeight
           IN  IF line[1] = "line" THEN line[2] = targetLineValue(chartConfig)
               ELSE LET lo == PlotFraction(line[2].yAxis, option[1].yAxis[2])
                        hi == PlotFraction(line[3].yAxis, option[1].yAxis[2])
                    IN  /\ line[2].xAxis = targetLineValue(chartConfig)
                        /\ line[3].xAxis = line[2].xAxis
                        \* lo + hi = 1: symmetric about the centre
                        /\ lo[1] * hi[2] + hi[1] * lo[2] = lo[2] * hi[2]
                        \* hi - lo = the clamped fraction
                        /\ (hi[1] * lo[2] - lo[1] * hi[2]) * 100
                              = (IF h <= 0 THEN 0 ELSE IF h >= 100 THEN 100 ELSE h)
                                   * lo[2] * hi[2]
                        /\ 0 <= lo[1] /\ hi[1] <= hi[2]
                        /\ h >= 100 => (lo[1] = 0 /\ hi[1] = hi[2])

\* C18 witness: a line of a height above 100 on a chart of one row, and the ref-based
\* revision draws it
C18_Witness ==
    /\ OptionBuilt /\ option[1].markLine # << >>
    /\ chartConfig.variant = "refs"
    /\ chartConfig.targetLineHeight > 100
    /\ chartConfig.rowCount = 1

====
